---- MODULE Spec2Model ----
(* Verification model of memgraph/query-modules (python).                   *)
(*   - graph_coloring/population_factory.py : generate_individuals, create, *)
(*     _list_chunks                                                          *)
(*   - graph_coloring.py : color_graph, color_subgraph, _run_algorithm,     *)
(*     _convert_to_graph, _convert_to_subgraph                               *)
EXTENDS Integers, Sequences, FiniteSets, TLC

(***************************************************************************)
(* Bounds of the model                                                     *)
(***************************************************************************)
MaxPopulationSize == 10
MaxChunks == 5
MaxAlgorithms == 3
MaxColors == 2
MaxVertices == 2
MaxEdges == 2
MaxHostSize == 4
MaxEnergy == 2
IterationCap == 12
MaxPoints == 3
MaxBatchSize == 2
MaxEdgeList == 2
MaxPending == 3
MaxTgnObjects == 2
MaxLosses == 2

Min(a, b) == IF a < b THEN a ELSE b

\* All sequences over S of length at most n
RECURSIVE SeqsUpTo(_, _)
SeqsUpTo(S, n) ==
  IF n = 0 THEN {<<>>}
  ELSE LET shorter == SeqsUpTo(S, n - 1)
       IN  shorter \cup {Append(s, x) : s \in shorter, x \in S}

(***************************************************************************)
(* Python values                                                           *)
(***************************************************************************)
\* Optional[List]: None, or a list.
None == [none |-> TRUE, list |-> <<>>]
Some(l) == [none |-> FALSE, list |-> l]

\* s[a:b] for 0 <= a, 0 <= b (b is clamped to len(s), an empty slice when a >= b)
Slice(s, a, b) ==
  LET hi == Min(b, Len(s))
  IN  IF a >= hi THEN <<>> ELSE [j \in 1..(hi - a) |-> s[a + j]]

(***************************************************************************)
(* Individuals.  An individual is identified by how it was made: the       *)
(* result of the j-th configured algorithm (1-based here), or the n-th     *)
(* random Individual(no_of_colors, graph) of the fill.                     *)
(***************************************************************************)
SeededIndividual(j) == [origin |-> "algorithm", index |-> j, no_of_colors |-> 0]
RandomIndividual(no_of_colors, n) == [origin |-> "random", index |-> n, no_of_colors |-> no_of_colors]
NoIndividual == [origin |-> "none", index |-> 0, no_of_colors |-> 0]

VARIABLES
  parameters,      \* the parameter bag given to the population factory
  pf_call,         \* which factory function was called ("none" before the call)
  pf_status,       \* "pending", "ok" (returned) or the exception raised
  individuals,     \* what generate_individuals returned (Optional[List])
  algorithm_runs,  \* indices of the algorithms whose run() was called, in call order
  chunked,         \* TRUE iff _list_chunks was entered
  chunks,          \* the chunks _list_chunks returned
  populations,     \* the list create returned
  context,         \* the host graph behind mgp.ProcCtx: vertices and edges in iteration order
  gc_call,         \* which procedure of graph_coloring.py was called ("none" before the call)
  gc_parameters,   \* the parameters map the caller passed to the procedure
  vertices_arg,    \* color_subgraph: the vertices list passed
  edges_arg,       \* color_subgraph: the edges list passed
  polls,           \* number of context.check_must_abort() calls made
  construction,    \* the steps the graph construction executed, in order
  graph,           \* the Graph(nodes, adj_list) built by the conversion
  run_parameters,  \* the parameters handed to alg.run (empty when alg.run was not called)
  sol,             \* the chromosome alg.run returned
  records,         \* the records the procedure returned
  gc_status,       \* "pending", "ok" (returned) or the exception raised
  search_state,    \* the search of alg.run: "idle", "running", "converged", "exhausted",
                   \* "cancelled", then "returned" (records handed back)
  iteration,       \* outer iterations of the search completed
  energy,          \* lowest energy among the individuals of the search
  must_abort,      \* the host's abort signal (what context.check_must_abort() tests)
  abort_issued_at, \* the value of iteration when the abort signal was issued, -1 before
  coloring_returned, \* TRUE iff the procedure returned its records to the caller
  points,          \* tsp solve: the points list passed
  method_arg,      \* tsp solve: the method argument, or that it was omitted
  tsp_status,      \* "pending", "ok" (returned) or the exception raised
  solver_used,     \* the tsp_util solver that computed the tour ("none": no solver called)
  order,           \* the order the solver returned
  sources,         \* the sources field of the record returned (Optional[List])
  destinations,    \* the destinations field of the record returned (Optional[List])
  tgn_call,        \* tgn.py: the procedure called last ("none" before any call)
  tgn_status,      \* "pending", "ok" (returned) or the exception the last call raised
  batch_size_arg,  \* the batch_size argument of the last set_params call
  edges_passed,    \* the edges list of the last update call
  trained,         \* TRUE iff the last call entered train_batch_self_supervised
  query_module_tgn,       \* the global QueryModuleTGN (objects by identity)
  query_module_tgn_batch, \* the global QueryModuleTGNBatch
  all_edges,       \* the global set of (src_id, dest_id) pairs seen
  all_embeddings,  \* the keys of the global embeddings dict
  tgn_objects,     \* number of TGN objects constructed so far (object identity)
  export_ctx,      \* export_util.py: the database behind ctx, its vertices in order
  export_call,     \* the procedure of export_util.py called ("none" before the call)
  export_path,     \* the path / file_path argument
  export_config,   \* graphml: the config map the caller passed
  query_results,   \* csv_query: the rows the query yields
  stream_arg,      \* csv_query: the stream argument
  export_status,   \* "pending", "ok" (returned) or the exception raised to the caller
  export_error,    \* the message of that exception ("" when none)
  export_record,   \* the fields of the record returned (none before, and for Record())
  files            \* the files written: path -> content

factory_vars == <<parameters, pf_call, pf_status, individuals, algorithm_runs, chunked, chunks, populations>>
coloring_vars == <<context, gc_call, gc_parameters, vertices_arg, edges_arg, polls, construction, graph,
                   run_parameters, sol, records, gc_status>>
search_vars == <<search_state, iteration, energy, must_abort, abort_issued_at, coloring_returned>>
tsp_vars == <<points, method_arg, tsp_status, solver_used, order, sources, destinations>>
tgn_vars == <<tgn_call, tgn_status, batch_size_arg, edges_passed, trained, query_module_tgn,
              query_module_tgn_batch, all_edges, all_embeddings, tgn_objects>>
export_vars == <<export_ctx, export_call, export_path, export_config, query_results, stream_arg,
                 export_status, export_error, export_record, files>>
vars == <<factory_vars, coloring_vars, search_vars, tsp_vars, tgn_vars, export_vars>>

MethodOmitted == [given |-> FALSE, value |-> ""]

NotSolved ==
  /\ tsp_status = "pending"
  /\ solver_used = "none"
  /\ order = <<>>
  /\ sources = None
  /\ destinations = None

TspIdle ==
  /\ points = <<>>
  /\ method_arg = MethodOmitted
  /\ NotSolved

\* query_module_tgn and query_module_tgn_batch are only annotated at lines
\* 78-79: the names are unbound until set_params or reset assigns them.
NoTgn ==
  [defined |-> FALSE, tgn |-> 0, optimizer |-> 0,
   m_loss |-> [object |-> 0, length |-> 0],
   config |-> [layer_type |-> "", edge_message_function_type |-> "",
               message_aggregator_type |-> "", memory_updater_type |-> "",
               learning_type |-> ""]]

NoBatch ==
  [defined |-> FALSE, current_batch_size |-> 0, sources |-> <<>>, destinations |-> <<>>,
   timestamps |-> <<>>, edge_idxs |-> <<>>, node_features |-> {}, edge_features |-> {},
   batch_size |-> 0]

\* The module after import: lines 73 and 76.
TgnIdle ==
  /\ tgn_call = "none"
  /\ tgn_status = "pending"
  /\ batch_size_arg = 0
  /\ edges_passed = <<>>
  /\ trained = FALSE
  /\ query_module_tgn = NoTgn
  /\ query_module_tgn_batch = NoBatch
  /\ all_edges = {}
  /\ all_embeddings = {}
  /\ tgn_objects = 0

NotExported ==
  /\ export_call = "none"
  /\ export_status = "pending"
  /\ export_error = ""
  /\ export_record = <<>>
  /\ files = <<>>

ExportIdle ==
  /\ export_ctx = <<>>
  /\ export_path = ""
  /\ export_config = <<>>
  /\ query_results = <<>>
  /\ stream_arg = FALSE
  /\ NotExported

(***************************************************************************)
(* telco.utils.validation.validate: not part of the sources at hand.       *)
(* Modelled from the parameter surface and the error conditions of the     *)
(* specification: no_of_colors >= 1, no_of_chunks >= 1, and                *)
(* population_size >= no_of_chunks before chunking.                        *)
(***************************************************************************)
valid_parameter(name, params) ==
  CASE name = "no_of_colors" -> params.no_of_colors >= 1
    [] name = "no_of_chunks" -> params.no_of_chunks >= 1
    [] OTHER                 -> TRUE

validate_each_name_alone(names, params) ==
  \A name \in names : valid_parameter(name, params)

\* names: the parameter names given to the decorator.  population_size is
\* checked against no_of_chunks where the decorator names both.
validate(names, params) ==
  /\ \A name \in names : valid_parameter(name, params)
  /\ {"population_size", "no_of_chunks"} \subseteq names
       => params.population_size >= params.no_of_chunks

(***************************************************************************)
(* generate_individuals                                                    *)
(***************************************************************************)
\* The loop over the algorithms (lines 28-34).  algorithms[j] is TRUE when
\* algorithm j's run() returns an individual, FALSE when it returns None.
RECURSIVE run_algorithms_excess_ignored(_, _, _, _, _)
run_algorithms_excess_ignored(algorithms, j, indvs, runs, population_size) ==
  IF j > Len(algorithms) THEN [value |-> Some(indvs), runs |-> runs]
  ELSE IF ~algorithms[j] /\ Len(indvs) < population_size
       THEN [value |-> None, runs |-> Append(runs, j)]
       ELSE run_algorithms_excess_ignored(algorithms, j + 1,
              IF Len(indvs) < population_size /\ algorithms[j]
                THEN Append(indvs, SeededIndividual(j)) ELSE indvs,
              Append(runs, j), population_size)

RECURSIVE run_algorithms_uncapped(_, _, _, _, _)
run_algorithms_uncapped(algorithms, j, indvs, runs, population_size) ==
  IF j > Len(algorithms) THEN [value |-> Some(indvs), runs |-> runs]
  ELSE IF ~algorithms[j]
       THEN [value |-> None, runs |-> Append(runs, j)]
       ELSE run_algorithms_uncapped(algorithms, j + 1,
              IF Len(indvs) <= population_size
                THEN Append(indvs, SeededIndividual(j)) ELSE indvs,
              Append(runs, j), population_size)

RECURSIVE run_algorithms(_, _, _, _, _)
run_algorithms(algorithms, j, indvs, runs, population_size) ==
  IF j > Len(algorithms) THEN [value |-> Some(indvs), runs |-> runs]
  ELSE IF ~algorithms[j]
       THEN [value |-> None, runs |-> Append(runs, j)]
       ELSE run_algorithms(algorithms, j + 1,
              IF Len(indvs) < population_size
                THEN Append(indvs, SeededIndividual(j)) ELSE indvs,
              Append(runs, j), population_size)

\* individuals.extend([Individual(no_of_colors, graph) for _ in range(population_size - len(individuals))])
random_fill(indvs, population_size, no_of_colors) ==
  indvs \o [n \in 1..(population_size - Len(indvs)) |-> RandomIndividual(no_of_colors, n)]

generate_individuals(params) ==
  IF ~validate({"population_size", "no_of_colors"}, params)
  THEN [status |-> "ValidationError", value |-> None, runs |-> <<>>]
  ELSE
    LET seeded == IF params.algorithms.none
                  THEN [value |-> Some(<<>>), runs |-> <<>>]
                  ELSE run_algorithms(params.algorithms.list, 1, <<>>, <<>>, params.population_size)
    IN  IF seeded.value.none
        THEN [status |-> "ok", value |-> None, runs |-> seeded.runs]
        ELSE [status |-> "ok",
              value |-> Some(random_fill(seeded.value.list, params.population_size, params.no_of_colors)),
              runs |-> seeded.runs]

(***************************************************************************)
(* create and _list_chunks                                                 *)
(***************************************************************************)
\* k, m = divmod(population_size, no_of_chunks); for no_of_chunks >= 1
_list_chunks_remainder_dropped(indvs, population_size, no_of_chunks) ==
  LET k == population_size \div no_of_chunks
  IN  [c \in 1..no_of_chunks |-> Slice(indvs, (c - 1) * k, c * k)]

_list_chunks(indvs, population_size, no_of_chunks) ==
  LET k == population_size \div no_of_chunks
      m == population_size % no_of_chunks
  IN  [c \in 1..no_of_chunks |->
         LET i == c - 1
         IN  Slice(indvs, i * k + Min(i, m), (i + 1) * k + Min(i + 1, m))]

\* prev_chunk = i - 1 if i - 1 > 0 else no_of_chunks - 1     (0-based i)
prev_chunk(i, no_of_chunks) == IF i - 1 > 0 THEN i - 1 ELSE no_of_chunks - 1

\* next_chunk = i + 1 if i + 1 < no_of_chunks else 0         (0-based i)
next_chunk_early_wrap(i, no_of_chunks) == IF i + 1 < no_of_chunks - 1 THEN i + 1 ELSE 0

next_chunk(i, no_of_chunks) == IF i + 1 < no_of_chunks THEN i + 1 ELSE 0

\* The constructor calls of lines 52 and 59, recorded by their arguments.
ChainPopulation(indvs) ==
  [kind |-> "ChainPopulation", individuals |-> indvs,
   prev_individual |-> NoIndividual, next_individual |-> NoIndividual]

ChainChunk(chunk, prev_individual, next_individual) ==
  [kind |-> "ChainChunk", individuals |-> Some(chunk),
   prev_individual |-> prev_individual, next_individual |-> next_individual]

Raised(exception, gen, was_chunked) ==
  [status |-> exception, individuals |-> gen.value, runs |-> gen.runs,
   chunked |-> was_chunked, chunks |-> <<>>, populations |-> <<>>]

\* The body of create, lines 46-60.
create_body(params) ==
  LET population_size == params.population_size
      no_of_chunks == params.no_of_chunks
      gen == generate_individuals(params)
  IN  IF gen.status # "ok" THEN Raised(gen.status, gen, FALSE)
      ELSE IF no_of_chunks = 1
      THEN [status |-> "ok", individuals |-> gen.value, runs |-> gen.runs,
            chunked |-> FALSE, chunks |-> <<>>,
            populations |-> <<ChainPopulation(gen.value)>>]
      ELSE IF no_of_chunks = 0 THEN Raised("ZeroDivisionError", gen, TRUE)
      ELSE IF gen.value.none THEN Raised("TypeError", gen, TRUE)
      ELSE
        LET cs == _list_chunks(gen.value.list, population_size, no_of_chunks)
            prev(c) == cs[prev_chunk(c - 1, no_of_chunks) + 1]
            next(c) == cs[next_chunk(c - 1, no_of_chunks) + 1]
        IN  IF \E c \in 1..no_of_chunks : Len(prev(c)) = 0 \/ Len(next(c)) = 0
            THEN [Raised("IndexError", gen, TRUE) EXCEPT !.chunks = cs]
            ELSE [status |-> "ok", individuals |-> gen.value, runs |-> gen.runs,
                  chunked |-> TRUE, chunks |-> cs,
                  populations |->
                    [c \in 1..no_of_chunks |->
                       ChainChunk(cs[c], prev(c)[Len(prev(c))], next(c)[1])]]

create(params) ==
  IF ~validate({"population_size", "no_of_chunks"}, params)
  THEN Raised("ValidationError", [value |-> None, runs |-> <<>>], FALSE)
  ELSE create_body(params)

(***************************************************************************)
(* graph_coloring.py                                                       *)
(***************************************************************************)
RECURSIVE Concat(_)
Concat(ss) == IF Len(ss) = 0 THEN <<>> ELSE Head(ss) \o Concat(Tail(ss))

\* The dict literal of _run_algorithm.  Float values are written in
\* thousandths (temperature 0.035 is 35), strategy objects by class name.
_default_parameters ==
  [no_of_processes |-> 1,
   no_of_chunks |-> 1,
   communication_delay |-> 10,
   max_iterations |-> 10,
   population_size |-> 7,
   no_of_colors |-> 3,
   max_steps |-> 25,
   temperature |-> 35,
   mutation |-> "SimpleMutation",
   error |-> "ConflictError",
   alpha |-> 100,
   beta |-> 1,
   algorithms |-> <<"LDO", "SDO">>,
   logging_delay |-> 5,
   convergence_tolerance |-> 500,
   convergence_probability |-> 500,
   max_attempts_tunneling |-> 10,
   neigh_mutation_probability |-> 35,
   mutation_tunneling |-> "MultipleMutation",
   multiple_mutation_no_of_nodes |-> 5,
   random_mutation_probability |-> 100,
   random_mutation_probability_2 |-> 500]

NoParameters == [key \in {} |-> 0]
NoGraph == [nodes |-> <<>>, adj_list |-> [key \in {} |-> <<>>]]

\* adj_list[key].append(entry) on a defaultdict(list)
adj_append(adj_list, key, entry) ==
  IF key \in DOMAIN adj_list
  THEN [adj_list EXCEPT ![key] = Append(@, entry)]
  ELSE [k \in (DOMAIN adj_list) \cup {key} |-> IF k = key THEN <<entry>> ELSE adj_list[k]]

\* One edge added with the append to the to-vertex's list forgotten.
add_edge_one_way(adj_list, e) == adj_append(adj_list, e.from, <<e.to, e.weight>>)

\* The two appends made for one edge e.
add_edge(adj_list, e) ==
  adj_append(adj_append(adj_list, e.from, <<e.to, e.weight>>), e.to, <<e.from, e.weight>>)

RECURSIVE add_edges(_, _)
add_edges(adj_list, es) ==
  IF Len(es) = 0 THEN adj_list ELSE add_edges(add_edge(adj_list, Head(es)), Tail(es))

\* v.out_edges: the host edges leaving vertex id v, in the host's order
out_edges(ctx, v) == SelectSeq(ctx.edges, LAMBDA e : e.from = v)

\* The steps of a graph construction, in program order.
NoEdge == [from |-> 0, to |-> 0, weight |-> 0]
Poll == [op |-> "poll", v |-> 0, e |-> NoEdge]           \* context.check_must_abort()
AppendNode(v) == [op |-> "append_node", v |-> v, e |-> NoEdge]   \* nodes.append(v.id)
OutEdges(v) == [op |-> "out_edges", v |-> v, e |-> NoEdge]       \* for e in v.out_edges
AddEdge(e) == [op |-> "add_edge", v |-> 0, e |-> e]      \* the two adj_list appends of edge e

\* _convert_to_graph, lines 74-83: a pass over the vertices appending the
\* ids, then a pass over the vertices adding every out-edge; each pass polls
\* check_must_abort() first thing for every vertex.
graph_steps(ctx) ==
  LET n == Len(ctx.vertices)
  IN  Concat([k \in 1..n |-> <<Poll, AppendNode(ctx.vertices[k])>>])
      \o Concat([k \in 1..n |->
           LET es == out_edges(ctx, ctx.vertices[k])
           IN  <<Poll, OutEdges(ctx.vertices[k])>> \o [j \in 1..Len(es) |-> AddEdge(es[j])]])

\* _convert_to_subgraph, lines 95-103 with the poll of the edge loop left out.
subgraph_steps_edges_unpolled(vertices, edges) ==
  Concat([k \in 1..Len(vertices) |-> <<Poll, AppendNode(vertices[k])>>])
  \o [k \in 1..Len(edges) |-> AddEdge(edges[k])]

\* _convert_to_subgraph, lines 95-103: a poll and an append for every supplied
\* vertex, then a poll and the two appends for every supplied edge.
subgraph_steps(vertices, edges) ==
  Concat([k \in 1..Len(vertices) |-> <<Poll, AppendNode(vertices[k])>>])
  \o Concat([k \in 1..Len(edges) |-> <<Poll, AddEdge(edges[k])>>])

count_polls(steps) == Cardinality({j \in 1..Len(steps) : steps[j].op = "poll"})

\* The steps executed when check_must_abort() raises at its abort_at-th call
\* (abort_at = 0, or more than the polls made: it never raises).
executed_steps(steps, abort_at) ==
  IF abort_at \in 1..count_polls(steps)
  THEN LET stop == CHOOSE j \in 1..Len(steps) :
                     steps[j].op = "poll" /\ count_polls(SubSeq(steps, 1, j)) = abort_at
       IN  SubSeq(steps, 1, stop)
  ELSE steps

\* Runs the construction steps; Graph(nodes, adj_list) is built by the return
\* statement, which an AbortError raised by a poll never reaches.
construct(steps, abort_at) ==
  LET done == executed_steps(steps, abort_at)
      appended == SelectSeq(done, LAMBDA st : st.op = "append_node")
      added == SelectSeq(done, LAMBDA st : st.op = "add_edge")
  IN  IF abort_at \in 1..count_polls(steps)
      THEN [status |-> "AbortError", polls |-> count_polls(done), steps |-> done, graph |-> NoGraph]
      ELSE [status |-> "ok", polls |-> count_polls(done), steps |-> done,
            graph |-> [nodes |-> [k \in 1..Len(appended) |-> appended[k].v],
                       adj_list |-> add_edges(NoGraph.adj_list,
                                              [k \in 1..Len(added) |-> added[k].e])]]

_convert_to_graph(ctx, abort_at) == construct(graph_steps(ctx), abort_at)

_convert_to_subgraph(vertices, edges, abort_at) == construct(subgraph_steps(vertices, edges), abort_at)

\* Graph.label (mage.graph_coloring_module.Graph, not in the sources at hand):
\* the external id of a node index, 0-based.
label(g, node) == g.nodes[node + 1]

\* QA.run (mage.graph_coloring_module.QA, not in the sources at hand): the
\* chromosomes a run may return, one color in [0, no_of_colors) per node;
\* a graph without nodes fails validation.
QA_run(g, params) ==
  IF Len(g.nodes) = 0 THEN {}
  ELSE [1..Len(g.nodes) -> 0..(params.no_of_colors - 1)]

\* _run_algorithm: the parameters given to alg.run.
_run_algorithm_parameters(params) == _default_parameters

\* The records with str(node) in place of str(g.label(node)).
make_records_index_as_label(g, chromosome) ==
  [k \in 1..Len(chromosome) |->
     [node |-> ToString(k - 1), color |-> ToString(chromosome[k])]]

\* The list comprehension of color_graph / color_subgraph.
make_records(g, chromosome) ==
  [k \in 1..Len(chromosome) |->
     [node |-> ToString(label(g, k - 1)), color |-> ToString(chromosome[k])]]

HostVertexId(k) == 10 + k
Weights == {1, 2}

\* Host graphs of at most MaxVertices vertices and MaxEdges edges, MaxHostSize
\* vertices and edges together; every edge carries a weight.

HostGraphs ==
  UNION {
    LET ids == {HostVertexId(k) : k \in 1..n}
    IN  [vertices : {[k \in 1..n |-> HostVertexId(k)]},
         edges : SeqsUpTo([from : ids, to : ids, weight : Weights], Min(MaxEdges, MaxHostSize - n))]
    : n \in 0..MaxVertices }

CallerParameters == [no_of_colors : {2, 3}, max_iterations : {10, 20}]

\* All subsequences of s, order kept.
RECURSIVE SubSeqs(_)
SubSeqs(s) ==
  IF Len(s) = 0 THEN {<<>>}
  ELSE LET rest == SubSeqs(Tail(s))
       IN  rest \cup {<<Head(s)>> \o r : r \in rest}

NotColored ==
  /\ gc_call = "none"
  /\ gc_parameters = NoParameters
  /\ vertices_arg = <<>>
  /\ edges_arg = <<>>
  /\ polls = 0
  /\ construction = <<>>
  /\ graph = NoGraph
  /\ run_parameters = NoParameters
  /\ sol = <<>>
  /\ records = <<>>
  /\ gc_status = "pending"

ColoringIdle ==
  /\ context = [vertices |-> <<>>, edges |-> <<>>]
  /\ NotColored

SearchIdle ==
  /\ search_state = "idle"
  /\ iteration = 0
  /\ energy = 0
  /\ must_abort = FALSE
  /\ abort_issued_at = -1
  /\ coloring_returned = FALSE

FactoryIdle ==
  /\ parameters = [population_size |-> 0, no_of_chunks |-> 0, no_of_colors |-> 0, algorithms |-> None]
  /\ pf_call = "none"
  /\ pf_status = "pending"
  /\ individuals = None
  /\ algorithm_runs = <<>>
  /\ chunked = FALSE
  /\ chunks = <<>>
  /\ populations = <<>>

\* From the converted graph on: _run_algorithm and the records.
Colored(name, conv, params) ==
  /\ gc_call' = name
  /\ gc_parameters' = params
  /\ polls' = conv.polls
  /\ construction' = conv.steps
  /\ graph' = conv.graph
  /\ \/ /\ conv.status # "ok"
        /\ gc_status' = conv.status
        /\ run_parameters' = NoParameters
        /\ sol' = <<>>
        /\ records' = <<>>
     \/ /\ conv.status = "ok"
        /\ run_parameters' = _run_algorithm_parameters(params)
        /\ LET outcomes == QA_run(conv.graph, _run_algorithm_parameters(params))
           IN  \/ /\ outcomes = {}
                  /\ gc_status' = "ValidationError"
                  /\ sol' = <<>>
                  /\ records' = <<>>
               \/ \E chromosome \in outcomes :
                    /\ gc_status' = "ok"
                    /\ sol' = chromosome
                    /\ records' = make_records(conv.graph, chromosome)

color_graph ==
  /\ gc_call = "none"
  /\ \E params \in CallerParameters, abort_at \in 0..(2 * Len(context.vertices)) :
       Colored("color_graph", _convert_to_graph(context, abort_at), params)
  /\ UNCHANGED <<context, vertices_arg, edges_arg>>
  /\ UNCHANGED factory_vars
  /\ UNCHANGED search_vars
  /\ UNCHANGED tsp_vars
  /\ UNCHANGED tgn_vars
  /\ UNCHANGED export_vars

color_subgraph ==
  /\ gc_call = "none"
  /\ \E vs \in SubSeqs(context.vertices), es \in SubSeqs(context.edges) :
       /\ vertices_arg' = vs
       /\ edges_arg' = es
       /\ \E params \in CallerParameters, abort_at \in 0..(Len(vs) + Len(es)) :
            Colored("color_subgraph", _convert_to_subgraph(vs, es, abort_at), params)
  /\ UNCHANGED context
  /\ UNCHANGED factory_vars
  /\ UNCHANGED search_vars
  /\ UNCHANGED tsp_vars
  /\ UNCHANGED tgn_vars
  /\ UNCHANGED export_vars

InitColoring ==
  /\ FactoryIdle
  /\ SearchIdle
  /\ TspIdle
  /\ TgnIdle
  /\ ExportIdle
  /\ context \in HostGraphs
  /\ NotColored

NextColoring == color_graph \/ color_subgraph

SpecColoring == InitColoring /\ [][NextColoring]_vars

(***************************************************************************)
(* The search started by _run_algorithm, step by step.                     *)
(* QA.run (mage.graph_coloring_module.QA) is not part of the sources at    *)
(* hand: its loop is modelled from the search algorithm of the             *)
(* specification (termination on energy 0, on max_iterations, on an        *)
(* observed cancellation).  What the loop is given comes from line 66.     *)
(***************************************************************************)
\* alg.run(graph, _default_parameters): the arguments of the call of line 66.
alg_run_arguments(g, params) ==
  [graph |-> g, parameters |-> _run_algorithm_parameters(params)]

\* The cancellation signal the search is able to poll: the signal of a
\* context among the arguments it was called with.
observed_abort(args, signal) == IF "context" \in DOMAIN args THEN signal ELSE FALSE

\* The termination test without the iteration budget.
search_should_stop_unbudgeted(args, it, en, signal) ==
  \/ en = 0
  \/ observed_abort(args, signal)

\* The termination test at an outer iteration boundary.
search_should_stop(args, it, en, signal) ==
  \/ en = 0
  \/ it >= args.parameters.max_iterations
  \/ observed_abort(args, signal)

search_outcome(args, it, en, signal) ==
  IF observed_abort(args, signal) THEN "cancelled"
  ELSE IF en = 0 THEN "converged"
  ELSE "exhausted"

SearchArguments == alg_run_arguments(graph, gc_parameters)

\* alg.run is entered: the seeded population has some lowest energy.
StartSearch ==
  /\ search_state = "idle"
  /\ search_state' = "running"
  /\ energy' \in 0..MaxEnergy
  /\ UNCHANGED <<iteration, must_abort, abort_issued_at, coloring_returned>>
  /\ UNCHANGED <<factory_vars, coloring_vars>>
  /\ UNCHANGED tsp_vars
  /\ UNCHANGED tgn_vars
  /\ UNCHANGED export_vars

\* One outer iteration: local search, tunneling and migration leave some
\* lowest energy (a worse move may be accepted).
SearchIteration ==
  /\ search_state = "running"
  /\ ~search_should_stop(SearchArguments, iteration, energy, must_abort)
  /\ iteration < IterationCap
  /\ iteration' = iteration + 1
  /\ energy' \in 0..MaxEnergy
  /\ UNCHANGED <<search_state, must_abort, abort_issued_at, coloring_returned>>
  /\ UNCHANGED <<factory_vars, coloring_vars>>
  /\ UNCHANGED tsp_vars
  /\ UNCHANGED tgn_vars
  /\ UNCHANGED export_vars

\* The loop is left at an iteration boundary where the termination test holds.
FinishSearch ==
  /\ search_state = "running"
  /\ search_should_stop(SearchArguments, iteration, energy, must_abort)
  /\ search_state' = search_outcome(SearchArguments, iteration, energy, must_abort)
  /\ UNCHANGED <<iteration, energy, must_abort, abort_issued_at, coloring_returned>>
  /\ UNCHANGED <<factory_vars, coloring_vars>>
  /\ UNCHANGED tsp_vars
  /\ UNCHANGED tgn_vars
  /\ UNCHANGED export_vars

\* The host issues the abort signal while the search is running.
IssueAbort ==
  /\ search_state = "running"
  /\ ~must_abort
  /\ must_abort' = TRUE
  /\ abort_issued_at' = iteration
  /\ UNCHANGED <<search_state, iteration, energy, coloring_returned>>
  /\ UNCHANGED <<factory_vars, coloring_vars>>
  /\ UNCHANGED tsp_vars
  /\ UNCHANGED tgn_vars
  /\ UNCHANGED export_vars

\* Lines 18-22 once alg.run has returned: sol is the chromosome of the
\* individual the run returned, the records are built from it and returned.
\* No poll is made here and nothing is raised.
ReturnRecords ==
  /\ search_state \in {"converged", "exhausted", "cancelled"}
  /\ search_state' = "returned"
  /\ coloring_returned' = TRUE
  /\ \E chromosome \in QA_run(graph, run_parameters) :
       /\ sol' = chromosome
       /\ records' = make_records(graph, chromosome)
  /\ gc_status' = "ok"
  /\ UNCHANGED <<iteration, energy, must_abort, abort_issued_at>>
  /\ UNCHANGED <<context, gc_call, gc_parameters, vertices_arg, edges_arg, polls,
                 construction, graph, run_parameters>>
  /\ UNCHANGED factory_vars
  /\ UNCHANGED tsp_vars
  /\ UNCHANGED tgn_vars
  /\ UNCHANGED export_vars

\* color_graph has built the graph of some host graph and calls _run_algorithm.
InitSearch ==
  /\ FactoryIdle
  /\ SearchIdle
  /\ TspIdle
  /\ TgnIdle
  /\ ExportIdle
  /\ gc_call = "color_graph"
  /\ gc_parameters \in CallerParameters
  /\ run_parameters = _run_algorithm_parameters(gc_parameters)
  /\ context \in {h \in HostGraphs : Len(h.vertices) > 0 /\ Len(h.edges) = 0}
  /\ graph = [nodes |-> context.vertices, adj_list |-> NoGraph.adj_list]
  /\ construction = graph_steps(context)
  /\ polls = count_polls(construction)
  /\ vertices_arg = <<>>
  /\ edges_arg = <<>>
  /\ sol = <<>>
  /\ records = <<>>
  /\ gc_status = "pending"

NextSearch == StartSearch \/ SearchIteration \/ FinishSearch \/ IssueAbort \/ ReturnRecords

SpecSearch == InitSearch /\ [][NextSearch]_vars

\* The search is sequential code that keeps running; the host need not ever
\* issue an abort.
SpecSearchFair ==
  /\ SpecSearch
  /\ WF_vars(StartSearch) /\ WF_vars(SearchIteration) /\ WF_vars(FinishSearch)
  /\ WF_vars(ReturnRecords)

(***************************************************************************)
(* The population factory as a state machine                               *)
(***************************************************************************)
ParameterBags ==
  [population_size : 0..MaxPopulationSize,
   no_of_chunks    : 0..MaxChunks,
   no_of_colors    : 0..MaxColors,
   algorithms      : {None} \cup {Some(a) : a \in SeqsUpTo(BOOLEAN, MaxAlgorithms)}]

InitFactory ==
  /\ ColoringIdle
  /\ SearchIdle
  /\ TspIdle
  /\ TgnIdle
  /\ ExportIdle
  /\ parameters \in ParameterBags
  /\ pf_call = "none"
  /\ pf_status = "pending"
  /\ individuals = None
  /\ algorithm_runs = <<>>
  /\ chunked = FALSE
  /\ chunks = <<>>
  /\ populations = <<>>

CallGenerateIndividuals ==
  /\ pf_call = "none"
  /\ LET r == generate_individuals(parameters)
     IN  /\ pf_status' = r.status
         /\ individuals' = r.value
         /\ algorithm_runs' = r.runs
  /\ pf_call' = "generate_individuals"
  /\ UNCHANGED <<parameters, chunked, chunks, populations>>
  /\ UNCHANGED coloring_vars
  /\ UNCHANGED search_vars
  /\ UNCHANGED tsp_vars
  /\ UNCHANGED tgn_vars
  /\ UNCHANGED export_vars

CallCreate ==
  /\ pf_call = "none"
  /\ LET r == create(parameters)
     IN  /\ pf_status' = r.status
         /\ individuals' = r.individuals
         /\ algorithm_runs' = r.runs
         /\ chunked' = r.chunked
         /\ chunks' = r.chunks
         /\ populations' = r.populations
  /\ pf_call' = "create"
  /\ UNCHANGED parameters
  /\ UNCHANGED coloring_vars
  /\ UNCHANGED search_vars
  /\ UNCHANGED tsp_vars
  /\ UNCHANGED tgn_vars
  /\ UNCHANGED export_vars

\* _list_chunks applied on its own to a list of population_size individuals.
CallListChunks ==
  /\ pf_call = "none"
  /\ LET indvs == random_fill(<<>>, parameters.population_size, parameters.no_of_colors)
     IN  /\ individuals' = Some(indvs)
         /\ IF parameters.no_of_chunks = 0
            THEN pf_status' = "ZeroDivisionError" /\ chunks' = <<>>
            ELSE /\ pf_status' = "ok"
                 /\ chunks' = _list_chunks(indvs, parameters.population_size, parameters.no_of_chunks)
  /\ chunked' = TRUE
  /\ pf_call' = "_list_chunks"
  /\ UNCHANGED <<parameters, algorithm_runs, populations>>
  /\ UNCHANGED coloring_vars
  /\ UNCHANGED search_vars
  /\ UNCHANGED tsp_vars
  /\ UNCHANGED tgn_vars
  /\ UNCHANGED export_vars

NextFactory == CallGenerateIndividuals \/ CallCreate \/ CallListChunks

SpecFactory == InitFactory /\ [][NextFactory]_vars

(***************************************************************************)
(* tsp_module/tsp.py                                                       *)
(***************************************************************************)
DEFAULT_SOLVING_METHOD == "1.5_approx"

\* The dict tsp_solving_methods: method name -> solver of tsp_util.
tsp_solving_methods ==
  [key \in {"2_approx", "greedy", DEFAULT_SOLVING_METHOD} |->
     CASE key = "2_approx" -> "solve_2_approx"
       [] key = "greedy" -> "solve_greedy"
       [] OTHER -> "solve_1_5_approx"]

\* str.lower() on the method names of the model
lower(method) ==
  CASE method = "Greedy" -> "greedy"
    [] OTHER -> method

MethodNames == {"greedy", "2_approx", "1.5_approx", "Greedy", "2-approx"}
MethodArguments == {MethodOmitted} \cup {[given |-> TRUE, value |-> name] : name \in MethodNames}

\* The items of a points list: vertices, and a value that is no mgp.Vertex.
PointItems ==
  {[is_vertex |-> TRUE, id |-> 30 + k] : k \in 1..MaxPoints}
    \cup {[is_vertex |-> FALSE, id |-> 0]}

\* What the solver called at line 47 may hand back for n points.  The solvers
\* of tsp_util are outside the sources and the specification does not describe
\* them, so nothing is assumed of the list beyond its being a list of
\* integers: a visiting order of the indices 0..n-1, a closed tour that ends
\* where it starts, an order one entry short, and an order with one entry
\* replaced by any of 0..n (a repeated index, or the index n that no point
\* has).
Orders(n) ==
  LET visiting == {t \in [1..n -> 0..(n - 1)] : \A i \in 1..n, j \in 1..n : t[i] = t[j] => i = j}
      closed == {t \o <<t[1]>> : t \in {v \in visiting : n >= 1}}
      short == {SubSeq(t, 1, n - 1) : t \in visiting}
      replaced == {[t EXCEPT ![k] = i] : t \in visiting, k \in 1..n, i \in 0..n}
  IN  visiting \cup closed \cup short \cup replaced

\* Lines 49-50 read order[x] for x in range(len(points) - 1) and for x in
\* range(1, len(points)), and index points with each: every position they
\* read must exist and hold an index of points, or IndexError is raised.
order_readable(pts, tour) ==
  LET n == Len(pts)
      read == IF n >= 2 THEN 1..n ELSE {}
  IN  \A x \in read : x <= Len(tour) /\ tour[x] \in 0..(n - 1)

\* sources = [points[order[x]] for x in range(len(points) - 1)]
tsp_sources(pts, tour) == [x \in 1..(Len(pts) - 1) |-> pts[tour[x] + 1]]

\* The destinations taken from range(len(points) - 1) like the sources.
tsp_destinations_from_start(pts, tour) == [x \in 1..(Len(pts) - 1) |-> pts[tour[x] + 1]]

\* destinations = [points[order[x]] for x in range(1, len(points))]
tsp_destinations(pts, tour) == [x \in 1..(Len(pts) - 1) |-> pts[tour[x + 1] + 1]]

\* method as line 47 uses it: the default of line 15 when omitted, the
\* default again (lines 44-45) when its lower-case form is no key.
resolved_method(arg) ==
  LET method == IF arg.given THEN arg.value ELSE DEFAULT_SOLVING_METHOD
  IN  IF lower(method) \notin DOMAIN tsp_solving_methods
      THEN DEFAULT_SOLVING_METHOD
      ELSE method

solve ==
  /\ tsp_status = "pending"
  /\ IF \E k \in 1..Len(points) : ~points[k].is_vertex
     THEN \* line 38: Record(sources=None, destinations=None)
          /\ tsp_status' = "ok"
          /\ UNCHANGED <<solver_used, order, sources, destinations>>
     ELSE IF resolved_method(method_arg) \notin DOMAIN tsp_solving_methods
     THEN \* line 47: the dict is indexed with a method that is no key
          /\ tsp_status' = "KeyError"
          /\ UNCHANGED <<solver_used, order, sources, destinations>>
     ELSE \E tour \in Orders(Len(points)) :
            /\ solver_used' = tsp_solving_methods[resolved_method(method_arg)]
            /\ order' = tour
            /\ IF order_readable(points, tour)
               THEN /\ tsp_status' = "ok"
                    /\ sources' = Some(tsp_sources(points, tour))
                    /\ destinations' = Some(tsp_destinations(points, tour))
               ELSE \* lines 49-50: order[x] or points[order[x]] is out of range
                    /\ tsp_status' = "IndexError"
                    /\ UNCHANGED <<sources, destinations>>
  /\ UNCHANGED <<points, method_arg>>
  /\ UNCHANGED <<factory_vars, coloring_vars, search_vars>>
  /\ UNCHANGED tgn_vars
  /\ UNCHANGED export_vars

InitTsp ==
  /\ FactoryIdle
  /\ ColoringIdle
  /\ SearchIdle
  /\ TgnIdle
  /\ ExportIdle
  /\ points \in SeqsUpTo(PointItems, MaxPoints)
  /\ method_arg \in MethodArguments
  /\ NotSolved

NextTsp == solve

SpecTsp == InitTsp /\ [][NextTsp]_vars

(***************************************************************************)
(* tgn.py                                                                  *)
(***************************************************************************)
\* The dataclass constructor of lines 54-63, fields in declaration order.
\* The arrays are sequences; the two feature dicts are kept by their keys
\* (their values are tensors of random or stored numbers).
QueryModuleTGNBatch(current_batch_size, srcs, dests, timestamps, edge_idxs, node_features, edge_features, batch_size) ==
  [defined |-> TRUE, current_batch_size |-> current_batch_size, sources |-> srcs,
   destinations |-> dests, timestamps |-> timestamps, edge_idxs |-> edge_idxs,
   node_features |-> node_features, edge_features |-> edge_features,
   batch_size |-> batch_size]

reset_current_batch_data(batch_size) ==
  QueryModuleTGNBatch(0, <<>>, <<>>, <<>>, <<>>, {}, {}, batch_size)

\* The members the helper functions of lines 425-466 accept; any other value
\* makes the enum constructor raise ValueError.
TGNLayerType == {"GraphAttentionEmbedding", "GraphSumEmbedding"}
MessageFunctionType == {"Identity", "MLP"}
MessageAggregatorType == {"Mean", "Last"}
MemoryUpdaterType == {"GRU", "RNN", "LSTM"}

enum_member(members, value) ==
  IF value \in members THEN [status |-> "ok", value |-> value]
  ELSE [status |-> "ValueError", value |-> ""]

get_tgn_layer_enum(layer_type) == enum_member(TGNLayerType, layer_type)
get_edge_message_function_type(message_function_type) ==
  enum_member(MessageFunctionType, message_function_type)
get_message_aggregator_type(message_aggregator_type) ==
  enum_member(MessageAggregatorType, message_aggregator_type)
get_memory_updater_type(memory_updater_type) ==
  enum_member(MemoryUpdaterType, memory_updater_type)

\* One TGN object shared by every call: nothing is newly created.
set_tgn_shared_model(config, created) ==
  IF config.layer_type \in TGNLayerType /\ config.learning_type = "self_supervised"
  THEN [status |-> "ok",
        value |-> [defined |-> TRUE, tgn |-> 1, optimizer |-> 1,
                   m_loss |-> [object |-> 1, length |-> 0], config |-> config]]
  ELSE [status |-> "Exception", value |-> NoTgn]

\* set_tgn: a TGN, an Adam optimizer and an empty m_loss list are
\* constructed and bound to the global (lines 101-128); "Wrong types" is
\* raised otherwise.  created: the number of constructions made before, so
\* that created + 1 names objects that did not exist.
set_tgn(config, created) ==
  IF config.layer_type \in TGNLayerType /\ config.learning_type = "self_supervised"
  THEN [status |-> "ok",
        value |-> [defined |-> TRUE, tgn |-> created + 1, optimizer |-> created + 1,
                   m_loss |-> [object |-> created + 1, length |-> 0], config |-> config]]
  ELSE [status |-> "Exception", value |-> NoTgn]

\* The body of set_params.  The integer arguments (dimensions, numbers of
\* layers, neighbors and heads) only size the network and are left out.
set_params_body(learning_type, batch_size, layer_type, edge_message_function_type, message_aggregator_type, memory_updater_type, tgn, created) ==
  LET batch == QueryModuleTGNBatch(0, <<>>, <<>>, <<>>, <<>>, {}, {}, batch_size)
      layer == get_tgn_layer_enum(layer_type)
      func == get_edge_message_function_type(edge_message_function_type)
      aggr == get_message_aggregator_type(message_aggregator_type)
      updater == get_memory_updater_type(memory_updater_type)
      config == [layer_type |-> layer.value,
                 edge_message_function_type |-> func.value,
                 message_aggregator_type |-> aggr.value,
                 memory_updater_type |-> updater.value,
                 learning_type |-> learning_type]
      made == set_tgn(config, created)
      failed(exception) ==
        [status |-> exception, batch |-> batch, tgn |-> tgn, created |-> created]
  IN  IF layer.status # "ok" THEN failed(layer.status)
      ELSE IF func.status # "ok" THEN failed(func.status)
      ELSE IF aggr.status # "ok" THEN failed(aggr.status)
      ELSE IF updater.status # "ok" THEN failed(updater.status)
      ELSE IF made.status # "ok" THEN failed(made.status)
      ELSE [status |-> "ok", batch |-> batch, tgn |-> made.value, created |-> created + 1]

\* The edges of the host graph an update can be passed.  features: whether
\* the edge has a "features" property (a tuple); vertex 3 has one too.
TgnHostEdges ==
  {[id |-> 1, from_vertex |-> 1, to_vertex |-> 2, features |-> FALSE],
   [id |-> 2, from_vertex |-> 3, to_vertex |-> 3, features |-> TRUE]}

vertex_features(vertex) == vertex = 3

\* process_edges, one edge after the other.  An exception leaves what the
\* earlier statements did: line 245 comes before any use of the globals.
RECURSIVE process_edges(_, _, _, _)
process_edges(edges, tgn, batch, seen) ==
  IF Len(edges) = 0 THEN [status |-> "ok", batch |-> batch, all_edges |-> seen]
  ELSE
    LET edge == Head(edges)
        src_id == edge.from_vertex
        dest_id == edge.to_vertex
        added == seen \cup {<<src_id, dest_id>>}
        draws_features ==
          ~vertex_features(src_id) \/ ~vertex_features(dest_id) \/ ~edge.features
    IN  IF draws_features /\ ~tgn.defined
        THEN [status |-> "NameError", batch |-> batch, all_edges |-> added]
        ELSE IF ~batch.defined
        THEN [status |-> "NameError", batch |-> batch, all_edges |-> added]
        ELSE process_edges(
               Tail(edges), tgn,
               [batch EXCEPT !.node_features = @ \cup {src_id, dest_id},
                             !.edge_features = @ \cup {edge.id},
                             !.sources = Append(@, src_id),
                             !.destinations = Append(@, dest_id),
                             !.timestamps = Append(@, edge.id),
                             !.edge_idxs = Append(@, edge.id)],
               added)

\* The assertion of lines 156-157.
batch_size_assertion(batch) ==
  /\ Len(batch.sources) = Len(batch.destinations)
  /\ Len(batch.destinations) = Len(batch.timestamps)
  /\ Len(batch.timestamps) = Cardinality(batch.edge_features)
  /\ Cardinality(batch.edge_features) = Len(batch.edge_idxs)
  /\ Len(batch.edge_idxs) = batch.current_batch_size

\* sample_negative: np.random.choice raises ValueError when asked for
\* samples from an empty list.
sample_negative_fails(negative_num, seen) ==
  negative_num > 0 /\ {pair[1] : pair \in seen} = {}

\* Training only once the pending count exceeds batch_size.
batch_is_full_strict(batch) == batch.current_batch_size > batch.batch_size

\* Line 357, negated: update goes on to train.
batch_is_full(batch) == ~(batch.current_batch_size < batch.batch_size)

\* train_batch_self_supervised.  forward_ok: whether the forward pass, the
\* loss and the optimizer step (lines 165-195, torch and mage.tgn) complete.
train_batch_self_supervised(forward_ok, tgn, batch, seen, embeddings) ==
  IF ~batch_size_assertion(batch)
  THEN [status |-> "AssertionError", tgn |-> tgn, all_embeddings |-> embeddings]
  ELSE IF sample_negative_fails(Len(batch.sources), seen)
  THEN [status |-> "ValueError", tgn |-> tgn, all_embeddings |-> embeddings]
  ELSE IF ~forward_ok
  THEN [status |-> "RuntimeError", tgn |-> tgn, all_embeddings |-> embeddings]
  ELSE [status |-> "ok",
        tgn |-> [tgn EXCEPT !.m_loss.length = @ + 1],
        all_embeddings |->
          embeddings \cup {batch.sources[i] : i \in 1..Len(batch.sources)}
                     \cup {batch.destinations[i] : i \in 1..Len(batch.destinations)}]

\* The body of update.
update_body(edges, forward_ok, tgn, batch, seen, embeddings) ==
  LET processed == process_edges(edges, tgn, batch, seen)
      counted == [processed.batch EXCEPT !.current_batch_size = @ + Len(edges)]
      result(status, was_trained, new_tgn, new_batch, new_embeddings) ==
        [status |-> status, trained |-> was_trained, tgn |-> new_tgn, batch |-> new_batch,
         all_edges |-> processed.all_edges, all_embeddings |-> new_embeddings]
  IN  IF processed.status # "ok"
      THEN result(processed.status, FALSE, tgn, processed.batch, embeddings)
      ELSE IF ~processed.batch.defined
      THEN result("NameError", FALSE, tgn, processed.batch, embeddings)
      ELSE IF ~batch_is_full(counted)
      THEN result("ok", FALSE, tgn, counted, embeddings)
      ELSE IF ~tgn.defined
      THEN result("NameError", FALSE, tgn, counted, embeddings)
      ELSE IF tgn.config.learning_type = "self_supervised"
      THEN LET run == train_batch_self_supervised(forward_ok, tgn, counted,
                                                  processed.all_edges, embeddings)
           IN  IF run.status # "ok"
               THEN result(run.status, TRUE, tgn, counted, embeddings)
               ELSE result("ok", TRUE, run.tgn,
                           reset_current_batch_data(counted.batch_size),
                           run.all_embeddings)
      ELSE result("ok", FALSE, tgn, reset_current_batch_data(counted.batch_size),
                  embeddings)

\* What a caller passes for the string arguments: members and a value that
\* is no member.
LearningTypes == {"self_supervised", "supervised"}
LayerTypeArguments == TGNLayerType \cup {"unknown"}
MessageFunctionArguments == {"Identity", "unknown"}
MessageAggregatorArguments == {"Mean", "unknown"}
MemoryUpdaterArguments == {"GRU", "unknown"}

\* The string arguments of a call, in the order learning_type, layer_type,
\* edge_message_function_type, message_aggregator_type, memory_updater_type:
\* all accepted, or one that is not.
SetParamsArguments ==
  {args \in LearningTypes \X LayerTypeArguments \X MessageFunctionArguments
            \X MessageAggregatorArguments \X MemoryUpdaterArguments :
     Cardinality({k \in 1..5 : args[k] \in {"supervised", "unknown"}}) <= 1}

set_params ==
  /\ tgn_objects < MaxTgnObjects
  /\ \E batch_size \in 0..MaxBatchSize, args \in SetParamsArguments :
       LET r == set_params_body(args[1], batch_size, args[2], args[3], args[4], args[5],
                                query_module_tgn, tgn_objects)
       IN  /\ tgn_status' = r.status
           /\ query_module_tgn_batch' = r.batch
           /\ query_module_tgn' = r.tgn
           /\ tgn_objects' = r.created
           /\ batch_size_arg' = batch_size
  /\ tgn_call' = "set_params"
  /\ trained' = FALSE
  /\ UNCHANGED <<edges_passed, all_edges, all_embeddings>>
  /\ UNCHANGED <<factory_vars, coloring_vars, search_vars, tsp_vars>>
  /\ UNCHANGED export_vars

update ==
  /\ query_module_tgn.m_loss.length < MaxLosses
  /\ \E edges \in SeqsUpTo(TgnHostEdges, MaxEdgeList), forward_ok \in BOOLEAN :
       /\ Len(query_module_tgn_batch.sources) + Len(edges) <= MaxPending
       /\ LET r == update_body(edges, forward_ok, query_module_tgn, query_module_tgn_batch,
                               all_edges, all_embeddings)
          IN  /\ tgn_status' = r.status
              /\ trained' = r.trained
              /\ query_module_tgn' = r.tgn
              /\ query_module_tgn_batch' = r.batch
              /\ all_edges' = r.all_edges
              /\ all_embeddings' = r.all_embeddings
       /\ edges_passed' = edges
  /\ tgn_call' = "update"
  /\ UNCHANGED <<batch_size_arg, tgn_objects>>
  /\ UNCHANGED <<factory_vars, coloring_vars, search_vars, tsp_vars>>
  /\ UNCHANGED export_vars

reset ==
  /\ all_embeddings' = {}
  /\ query_module_tgn_batch' = reset_current_batch_data(0)
  /\ all_edges' = {}
  /\ tgn_call' = "reset"
  /\ tgn_status' = "ok"
  /\ trained' = FALSE
  /\ UNCHANGED <<batch_size_arg, edges_passed, query_module_tgn, tgn_objects>>
  /\ UNCHANGED <<factory_vars, coloring_vars, search_vars, tsp_vars>>
  /\ UNCHANGED export_vars

InitTgn ==
  /\ FactoryIdle
  /\ ColoringIdle
  /\ SearchIdle
  /\ TspIdle
  /\ TgnIdle
  /\ ExportIdle

NextTgn == set_params \/ update \/ reset

SpecTgn == InitTgn /\ [][NextTgn]_vars

(***************************************************************************)
(* export_util.py                                                         *)
(***************************************************************************)
\* Dicts are kept in insertion order: properties as a sequence of
\* <<key, value>> pairs, the key dicts of write_keys as a sequence of keys.
\* Property values are strings, which convert_to_isoformat and str return
\* as they are.
Node(id, labels, properties) ==
  [id |-> id, labels |-> labels, properties |-> properties, type |-> "node"]

Relationship(end, id, rel_label, properties, start) ==
  [end |-> end, id |-> id, label |-> rel_label, properties |-> properties,
   start |-> start, type |-> "relationship"]

RECURSIVE get_graph_nodes(_)
get_graph_nodes(vertices) ==
  IF Len(vertices) = 0 THEN <<>>
  ELSE <<Node(Head(vertices).id, Head(vertices).labels, Head(vertices).properties)>>
       \o get_graph_nodes(Tail(vertices))

RECURSIVE get_graph_relationships(_)
get_graph_relationships(vertices) ==
  IF Len(vertices) = 0 THEN <<>>
  ELSE LET vertex == Head(vertices)
       IN  [k \in 1..Len(vertex.out_edges) |->
              Relationship(vertex.out_edges[k].to_vertex, vertex.out_edges[k].id,
                           vertex.out_edges[k].type, vertex.out_edges[k].properties,
                           vertex.id)]
           \o get_graph_relationships(Tail(vertices))

\* nodes + relationships.  format_iso only changes temporal property values,
\* of which the databases here have none.
get_graph(vertices) == get_graph_nodes(vertices) \o get_graph_relationships(vertices)

\* "if not config.get(key): config.update({key: default})", key by key.
set_default_config(cfg) ==
  LET stream == IF "stream" \in DOMAIN cfg THEN cfg.stream ELSE FALSE
      format == IF "format" \in DOMAIN cfg THEN cfg.format ELSE ""
      leaveOutLabels == IF "leaveOutLabels" \in DOMAIN cfg THEN cfg.leaveOutLabels ELSE FALSE
      leaveOutProperties ==
        IF "leaveOutProperties" \in DOMAIN cfg THEN cfg.leaveOutProperties ELSE FALSE
  IN  [stream |-> stream, format |-> format, caption |-> <<>>, useTypes |-> FALSE,
       leaveOutLabels |-> leaveOutLabels, leaveOutProperties |-> leaveOutProperties]

\* str.upper on the format names a caller passes.
upper(format) ==
  CASE format = "gephi" -> "GEPHI"
    [] format = "tinkerpop" -> "TINKERPOP"
    [] OTHER -> format

\* Lines 508-513: element.update on every element, relationships too.
leave_out(elements, cfg) ==
  [k \in 1..Len(elements) |->
     LET labelled == IF cfg.leaveOutLabels
                     THEN ("labels" :> <<>>) @@ elements[k] ELSE elements[k]
     IN  IF cfg.leaveOutProperties
         THEN ("properties" :> <<>>) @@ labelled ELSE labelled]

write_header(output) ==
  output \o "<?xml version=\"1.0\" encoding=\"UTF-8\"?>\n"
         \o "<graphml xmlns=\"http://graphml.graphdrawing.org/xmlns\" xmlns:xsi=\"http://www.w3.org/2001/XMLSchema-instance\" xsi:schemaLocation=\"http://graphml.graphdrawing.org/xmlns http://graphml.graphdrawing.org/xmlns/1.0/graphml.xsd\">\n"

in_keys(keys, key) == \E k \in 1..Len(keys) : keys[k] = key

\* dict.update({key: ...}): a key already present keeps its place.
update_key(keys, key) == IF in_keys(keys, key) THEN keys ELSE Append(keys, key)

RECURSIVE update_keys(_, _)
update_keys(keys, properties) ==
  IF Len(properties) = 0 THEN keys
  ELSE update_keys(update_key(keys, Head(properties)[1]), Tail(properties))

has_labels(element) == "labels" \in DOMAIN element /\ Len(element.labels) > 0

RECURSIVE node_keys(_, _, _)
node_keys(elements, cfg, keys) ==
  IF Len(elements) = 0 THEN keys
  ELSE LET element == Head(elements)
           labelled == IF has_labels(element)
                       THEN update_key(keys, IF upper(cfg.format) = "TINKERPOP"
                                             THEN "labelV" ELSE "labels")
                       ELSE keys
       IN  node_keys(Tail(elements), cfg,
                     IF element.type = "node"
                     THEN update_keys(labelled, element.properties) ELSE keys)

RECURSIVE rel_keys(_, _, _)
rel_keys(elements, cfg, keys) ==
  IF Len(elements) = 0 THEN keys
  ELSE LET element == Head(elements)
           labelled == update_key(keys, IF upper(cfg.format) = "TINKERPOP"
                                        THEN "labelE" ELSE "label")
       IN  rel_keys(Tail(elements), cfg,
                    IF element.type = "relationship"
                    THEN update_keys(labelled, element.properties) ELSE keys)

RECURSIVE write_key_elements(_, _, _)
write_key_elements(output, keys, for) ==
  IF Len(keys) = 0 THEN output
  ELSE write_key_elements(
         output \o "<key id=\"" \o Head(keys) \o "\" for=\"" \o for
                \o "\" attr.name=\"" \o Head(keys) \o "\"" \o "/>\n",
         Tail(keys), for)

\* write_keys with useTypes unset: no attr.type is written.
write_keys(elements, output, cfg) ==
  LET gephi(keys) == IF upper(cfg.format) = "GEPHI" THEN update_key(keys, "TYPE") ELSE keys
  IN  write_key_elements(
        write_key_elements(output, gephi(node_keys(elements, cfg, <<>>)), "node"),
        gephi(rel_keys(elements, cfg, <<>>)), "edge")

write_graph(output) == output \o "<graph id=\"G\" edgedefault=\"directed\">\n"

RECURSIVE colon_labels(_)
colon_labels(labels) ==
  IF Len(labels) = 0 THEN "" ELSE ":" \o Head(labels) \o colon_labels(Tail(labels))

\* With an empty caption list: the first property value, else str(id).
get_gephi_label_value(element, cfg) ==
  IF Len(element.properties) > 0 THEN element.properties[1][2]
  ELSE ToString(element.id)

\* The else of line 388 belongs to the GEPHI test alone.
write_labels_as_data(element, output, cfg) ==
  IF ~has_labels(element) THEN output
  ELSE
    LET tinkerpop ==
          IF upper(cfg.format) = "TINKERPOP"
          THEN output \o "<data key=\"labelV\">" \o Head(element.labels)
                      \o colon_labels(Tail(element.labels)) \o "</data>"
          ELSE output
    IN  IF upper(cfg.format) = "GEPHI"
        THEN tinkerpop \o "<data key=\"TYPE\">" \o colon_labels(element.labels) \o "</data>"
                       \o "<data key=\"label\">" \o get_gephi_label_value(element, cfg)
                       \o "</data>"
        ELSE tinkerpop \o "<data key=\"labels\">" \o colon_labels(element.labels)
                       \o "</data>"

get_value_string(value) == value

RECURSIVE write_properties(_, _)
write_properties(output, properties) ==
  IF Len(properties) = 0 THEN output
  ELSE write_properties(
         output \o "<data key=\"" \o Head(properties)[1] \o "\">"
                \o get_value_string(Head(properties)[2]) \o "</data>",
         Tail(properties))

write_node(element, output, cfg) ==
  LET opened == output \o "<node id=\"n" \o ToString(element.id)
      labelled == IF has_labels(element) /\ upper(cfg.format) # "TINKERPOP"
                  THEN opened \o "\" labels=\"" \o colon_labels(element.labels)
                  ELSE opened
  IN  write_properties(write_labels_as_data(element, labelled \o "\">", cfg),
                       element.properties)
      \o "</node>\n"

write_edge(element, output, cfg) ==
  LET opened == output \o "<edge id=\"e" \o ToString(element.id)
                       \o "\" source=\"n" \o ToString(element.start)
                       \o "\" target=\"n" \o ToString(element.end)
                       \o "\" label=\"" \o element.label \o "\">"
      labelled == IF upper(cfg.format) = "TINKERPOP"
                  THEN opened \o "<data key=\"labelE\">" \o element.label \o "</data>"
                  ELSE opened \o "<data key=\"label\">" \o element.label \o "</data>"
      typed == IF upper(cfg.format) = "GEPHI"
               THEN labelled \o "<data key=\"TYPE\">" \o element.label \o "</data>"
               ELSE labelled
  IN  write_properties(typed, element.properties) \o "</edge>\n"

RECURSIVE write_nodes_and_rels(_, _, _)
write_nodes_and_rels(elements, output, cfg) ==
  IF Len(elements) = 0 THEN output
  ELSE write_nodes_and_rels(
         Tail(elements),
         IF Head(elements).type = "node" THEN write_node(Head(elements), output, cfg)
         ELSE write_edge(Head(elements), output, cfg),
         cfg)

write_footer(output) == output \o "</graph>\n" \o "</graphml>"

\* open(path, "w") on the host: the exception it raises, "ok" when it opens.
open_for_writing(file_path) ==
  CASE file_path = "/root/export.graphml" -> "PermissionError"
    [] file_path = "missing/export.graphml" -> "FileNotFoundError"
    [] file_path = "" -> "FileNotFoundError"
    [] OTHER -> "ok"

\* The message of lines 138-141 and 534-537 (the literal runs over a line
\* break inside the string).
no_permission_message ==
  "You don't have permissions to write into that file. Make sure              to give the necessary permissions to user memgraph."

\* The body of graphml: what the caller gets and what is on disk after it.
graphml_body(vertices, file_path, caller_config, disk) ==
  LET cfg == set_default_config(caller_config)
      elements == leave_out(get_graph(vertices), cfg)
      output ==
        write_footer(
          write_nodes_and_rels(elements,
            write_graph(write_keys(elements, write_header(""), cfg)), cfg))
      raised(exception, message) ==
        [status |-> exception, error |-> message, record |-> <<>>, files |-> disk]
      could_not_write == raised("OSError", "Could not open or write to the file.")
  IN  IF file_path = "" /\ ~cfg.stream
      THEN \* the Exception of lines 518-520 is caught at line 538
           could_not_write
      ELSE IF file_path # "" /\ open_for_writing(file_path) = "PermissionError"
      THEN raised("PermissionError", no_permission_message)
      ELSE IF file_path # "" /\ open_for_writing(file_path) # "ok"
      THEN could_not_write
      ELSE [status |-> "ok", error |-> "",
            record |-> [status |-> IF cfg.stream THEN output ELSE "success"],
            files |-> IF file_path # "" THEN (file_path :> output) @@ disk ELSE disk]

\* Parameter.STANDARD_INDENT.value, the indent js.dump is given (4 in
\* mage.export_import_util.parameters).
STANDARD_INDENT == 4

RECURSIVE spaces(_)
spaces(n) == IF n = 0 THEN "" ELSE " " \o spaces(n - 1)

json_string(text) == "\"" \o text \o "\""

\* The items of a list or dict, one per line at the given level.
RECURSIVE json_items(_, _)
json_items(items, level) ==
  IF Len(items) = 1 THEN spaces(level * STANDARD_INDENT) \o Head(items)
  ELSE spaces(level * STANDARD_INDENT) \o Head(items) \o ",\n" \o json_items(Tail(items), level)

json_array(items, level) ==
  IF Len(items) = 0 THEN "[]"
  ELSE "[\n" \o json_items(items, level + 1) \o "\n" \o spaces(level * STANDARD_INDENT) \o "]"

\* members: <<key, encoded value>> pairs in dict order.
json_object(members, level) ==
  IF Len(members) = 0 THEN "{}"
  ELSE "{\n"
       \o json_items([k \in 1..Len(members) |->
                        json_string(members[k][1]) \o ": " \o members[k][2]], level + 1)
       \o "\n" \o spaces(level * STANDARD_INDENT) \o "}"

\* The dict of get_dict, keys in the order the dict literal gives them.
json_element(element, level) ==
  LET json_properties(properties, inner) ==
        json_object([k \in 1..Len(properties) |->
                       <<properties[k][1], json_string(properties[k][2])>>], inner)
  IN
  IF element.type = "node"
  THEN json_object(
         <<<<"id", ToString(element.id)>>,
           <<"labels", json_array([k \in 1..Len(element.labels) |->
                                     json_string(element.labels[k])], level + 1)>>,
           <<"properties", json_properties(element.properties, level + 1)>>,
           <<"type", json_string(element.type)>>>>, level)
  ELSE json_object(
         <<<<"end", ToString(element.end)>>,
           <<"id", ToString(element.id)>>,
           <<"label", json_string(element.label)>>,
           <<"properties", json_properties(element.properties, level + 1)>>,
           <<"start", ToString(element.start)>>,
           <<"type", json_string(element.type)>>>>, level)

\* js.dump(graph, outfile, indent=STANDARD_INDENT, default=str)
js_dump(elements) ==
  json_array([k \in 1..Len(elements) |-> json_element(elements[k], 1)], 0)

\* The body of json.
json_body(vertices, file_path, disk) ==
  LET elements == get_graph(vertices)
      raised(exception, message) ==
        [status |-> exception, error |-> message, record |-> <<>>, files |-> disk]
  IN  IF open_for_writing(file_path) = "PermissionError"
      THEN raised("PermissionError", no_permission_message)
      ELSE IF open_for_writing(file_path) # "ok"
      THEN raised("OSError", "Could not open or write to the file.")
      ELSE [status |-> "ok", error |-> "", record |-> <<>>,
            files |-> (file_path :> js_dump(elements)) @@ disk]

\* One row of csv.writer.  A value of a query result is an integer [int |-> n]
\* or a string [str |-> text].  With the default QUOTE_MINIMAL a field is
\* str(value), unquoted for values without a comma, a quote or a line break;
\* with QUOTE_NONNUMERIC every value that is no number is quoted.
RECURSIVE csv_row(_, _)
csv_row(cells, nonnumeric) ==
  LET field(cell) ==
        IF "int" \in DOMAIN cell THEN ToString(cell.int)
        ELSE IF nonnumeric THEN "\"" \o cell.str \o "\""
        ELSE cell.str
  IN  IF Len(cells) = 0 THEN ""
      ELSE IF Len(cells) = 1 THEN field(Head(cells))
      ELSE field(Head(cells)) \o "," \o csv_row(Tail(cells), nonnumeric)

\* writer.writerows: each row ends with the line terminator "\r\n".
RECURSIVE writerows(_, _)
writerows(data_list, nonnumeric) ==
  IF Len(data_list) = 0 THEN ""
  ELSE csv_row(Head(data_list), nonnumeric) \o "\r\n"
       \o writerows(Tail(data_list), nonnumeric)

save_file(file_path, data_list, disk) ==
  IF open_for_writing(file_path) = "PermissionError"
  THEN [status |-> "PermissionError",
        error |-> "You don't have permissions to write into that file.              Make sure to give the necessary permissions to user memgraph.",
        files |-> disk]
  ELSE IF open_for_writing(file_path) # "ok"
  THEN [status |-> "OSError", error |-> "Could not open or write to the file.",
        files |-> disk]
  ELSE [status |-> "ok", error |-> "",
        files |-> (file_path :> writerows(data_list, FALSE)) @@ disk]

csv_to_stream(data_list) == writerows(data_list, TRUE)

\* The body of csv_query.  results: the rows of execute_and_fetch, each a
\* sequence of <<key, value>> pairs.
csv_query_body(results, file_path, stream, disk) ==
  LET raised(exception, message, new_disk) ==
        [status |-> exception, error |-> message, record |-> <<>>, files |-> new_disk]
      result_keys == [k \in 1..Len(results[1]) |-> [str |-> results[1][k][1]]]
      data_list ==
        <<result_keys>>
        \o [r \in 1..Len(results) |-> [k \in 1..Len(results[r]) |-> results[r][k][2]]]
      saved == IF file_path # "" THEN save_file(file_path, data_list, disk)
               ELSE [status |-> "ok", error |-> "", files |-> disk]
  IN  IF file_path = "" /\ ~stream
      THEN raised("Exception", "Please provide file name and/or config.", disk)
      ELSE IF Len(results) = 0
      THEN raised("Exception",
                  "Your query yields no results. Check if the database              is empty or rewrite the provided query.",
                  disk)
      ELSE IF saved.status # "ok"
      THEN raised(saved.status, saved.error, saved.files)
      ELSE [status |-> "ok", error |-> "",
            record |-> [file_path |-> file_path,
                        data |-> IF stream THEN csv_to_stream(data_list) ELSE ""],
            files |-> saved.files]

\* The databases an export is run on.
ExportDatabases ==
  {<<>>,
   <<[id |-> 0, labels |-> <<"Person">>, properties |-> <<<<"name", "Ann">>>>,
      out_edges |-> <<>>]>>,
   <<[id |-> 0, labels |-> <<"Person", "Admin">>, properties |-> <<<<"name", "Ann">>>>,
      out_edges |-> <<[id |-> 0, type |-> "KNOWS", properties |-> <<<<"since", "2020">>>>,
                       to_vertex |-> 1]>>],
     [id |-> 1, labels |-> <<>>, properties |-> <<>>, out_edges |-> <<>>]>>}

ExportPaths == {"", "export.graphml", "/root/export.graphml", "missing/export.graphml"}

\* The config maps a caller passes: each key given or left out.
ConfigEntries(key, values) == {<<>>} \cup {key :> value : value \in values}

ExportConfigs ==
  {stream @@ format @@ labels @@ properties :
     stream \in ConfigEntries("stream", BOOLEAN),
     format \in ConfigEntries("format", {"gephi", "tinkerpop"}),
     labels \in ConfigEntries("leaveOutLabels", {TRUE}),
     properties \in ConfigEntries("leaveOutProperties", {TRUE})}

\* The rows a query may yield.
QueryResults ==
  {<<>>,
   <<<<<<"n", [int |-> 1]>>>>>>,
   <<<<<<"name", [str |-> "Ann"]>>, <<"age", [int |-> 30]>>>>,
     <<<<"name", [str |-> "Bob"]>>, <<"age", [int |-> 41]>>>>>>}

Exported(name, r) ==
  /\ export_call' = name
  /\ export_status' = r.status
  /\ export_error' = r.error
  /\ export_record' = r.record
  /\ files' = r.files
  /\ UNCHANGED <<export_ctx, export_path, export_config, query_results, stream_arg>>
  /\ UNCHANGED <<factory_vars, coloring_vars, search_vars, tsp_vars, tgn_vars>>

graphml ==
  /\ export_call = "none"
  /\ Exported("graphml", graphml_body(export_ctx, export_path, export_config, files))

json ==
  /\ export_call = "none"
  /\ Exported("json", json_body(export_ctx, export_path, files))

csv_query ==
  /\ export_call = "none"
  /\ Exported("csv_query", csv_query_body(query_results, export_path, stream_arg, files))

InitExport ==
  /\ FactoryIdle
  /\ ColoringIdle
  /\ SearchIdle
  /\ TspIdle
  /\ TgnIdle
  /\ export_ctx \in ExportDatabases
  /\ export_path \in ExportPaths
  /\ export_config \in ExportConfigs
  /\ query_results \in QueryResults
  /\ stream_arg \in BOOLEAN
  /\ NotExported

NextExport == graphml \/ json \/ csv_query

SpecExport == InitExport /\ [][NextExport]_vars

\* C23: graphml called with an empty path and stream not enabled fails, the
\* error the caller gets reads "Please provide file name or set stream to
\* True in config.", and no file is written.
C23_MissingFileNameErrorSurfaced ==
  (/\ export_call = "graphml"
   /\ export_path = ""
   /\ ~("stream" \in DOMAIN export_config /\ export_config.stream))
  => /\ export_status # "ok"
     /\ export_error = "Please provide file name or set stream to True in config."
     /\ files = <<>>

(***************************************************************************)
(* Properties of tsp solve                                                 *)
(***************************************************************************)
TourComputed == tsp_status = "ok" /\ solver_used # "none"

\* C19: for a list of n vertices solve returns sources and destinations of
\* equal length n-1 (none for an empty list); sources[i] is the point at tour
\* position i, destinations[i] the point at tour position i+1, so that
\* destinations[i] = sources[i+1].
C19_SourcesAndDestinationsAreTourEdges ==
  TourComputed =>
    LET n == Len(points)
    IN  /\ ~sources.none /\ ~destinations.none
        /\ Len(sources.list) = (IF n = 0 THEN 0 ELSE n - 1)
        /\ Len(destinations.list) = Len(sources.list)
        /\ \A i \in 1..(n - 1) :
             /\ sources.list[i] = points[order[i] + 1]
             /\ destinations.list[i] = points[order[i + 1] + 1]
        /\ \A i \in 1..(n - 2) : destinations.list[i] = sources.list[i + 1]

C19_Witness ==
  /\ TourComputed
  /\ Len(points) = 3
  /\ points[1] # points[2] /\ points[2] # points[3] /\ points[1] # points[3]
  /\ order = <<2, 0, 1>>
  /\ sources.list = <<points[3], points[1]>>
  /\ destinations.list = <<points[1], points[2]>>

\* C20: when the method argument is omitted the tour is computed with the
\* greedy solving method.
C20_OmittedMethodIsGreedy ==
  (TourComputed /\ ~method_arg.given) => solver_used = "solve_greedy"

(***************************************************************************)
(* Properties of the population factory                                    *)
(***************************************************************************)
Last(s) == s[Len(s)]

CreateReturned == pf_call = "create" /\ pf_status = "ok"
RingBuilt == CreateReturned /\ parameters.no_of_chunks >= 2

\* C1: for N >= 2 chunks and every chunk index i, the ChainChunk built for
\* chunk i gets as prev_individual the tail individual of chunk (i-1) mod N.
C1_PrevIsTailOfRingPredecessor ==
  RingBuilt =>
    \A i \in 0..(parameters.no_of_chunks - 1) :
      populations[i + 1].prev_individual
        = Last(chunks[((i - 1) % parameters.no_of_chunks) + 1])

\* C2: for N >= 2 chunks and every chunk index i, the ChainChunk built for
\* chunk i gets as next_individual the head individual of chunk (i+1) mod N.
C2_NextIsHeadOfRingSuccessor ==
  RingBuilt =>
    \A i \in 0..(parameters.no_of_chunks - 1) :
      populations[i + 1].next_individual
        = Head(chunks[((i + 1) % parameters.no_of_chunks) + 1])

C2_Witness ==
  /\ RingBuilt
  /\ parameters.no_of_chunks = 3
  /\ parameters.population_size = 7
  /\ populations[2].next_individual = Head(chunks[3])
  /\ populations[3].next_individual = Head(chunks[1])

\* C3: for P >= N >= 1, _list_chunks splits the individuals into N contiguous
\* groups in list order; the first P mod N groups have P div N + 1 members,
\* the others P div N.
C3_ChunksAreNearlyEqualContiguousGroups ==
  (/\ chunked
   /\ pf_status \in {"ok", "IndexError"}
   /\ parameters.population_size >= parameters.no_of_chunks
   /\ parameters.no_of_chunks >= 1)
  => /\ Len(chunks) = parameters.no_of_chunks
     /\ \A c \in 1..Len(chunks) :
          Len(chunks[c]) =
            (parameters.population_size \div parameters.no_of_chunks)
            + (IF c <= parameters.population_size % parameters.no_of_chunks THEN 1 ELSE 0)
     /\ Concat(chunks) = individuals.list
     /\ Len(individuals.list) = parameters.population_size

C3_Witness ==
  /\ pf_call = "_list_chunks"
  /\ parameters.population_size = 10
  /\ parameters.no_of_chunks = 3
  /\ Len(chunks) = 3
  /\ Len(chunks[1]) = 4 /\ Len(chunks[2]) = 3 /\ Len(chunks[3]) = 3

\* C4: with population_size < no_of_chunks create fails with a validation
\* error before any chunking: _list_chunks is not entered, no chunk is built,
\* no population is returned.
C4_TooFewIndividualsFailsValidationBeforeChunking ==
  (pf_call = "create" /\ parameters.population_size < parameters.no_of_chunks)
  => /\ pf_status = "ValidationError"
     /\ ~chunked
     /\ chunks = <<>>
     /\ populations = <<>>

C4_Witness ==
  /\ pf_call = "create"
  /\ parameters.population_size = 2
  /\ parameters.no_of_chunks = 5
  /\ pf_status = "ValidationError"
  /\ ~chunked

GenerateReturned == pf_call = "generate_individuals" /\ pf_status = "ok"

AllAlgorithmsSucceed ==
  parameters.algorithms.none
    \/ \A j \in 1..Len(parameters.algorithms.list) : parameters.algorithms.list[j]

SomeAlgorithmFails ==
  /\ ~parameters.algorithms.none
  /\ \E j \in 1..Len(parameters.algorithms.list) : ~parameters.algorithms.list[j]

NoOfAlgorithms == IF parameters.algorithms.none THEN 0 ELSE Len(parameters.algorithms.list)

\* C5: when every seeding algorithm succeeds, generate_individuals returns
\* exactly population_size individuals: the algorithms' results in list
\* order, at most population_size of them, then random individuals; every
\* configured algorithm is run exactly once.
C5_SeededThenRandomUpToPopulationSize ==
  (GenerateReturned /\ AllAlgorithmsSucceed)
  => LET seeded == Min(NoOfAlgorithms, parameters.population_size)
     IN  /\ ~individuals.none
         /\ Len(individuals.list) = parameters.population_size
         /\ \A j \in 1..seeded : individuals.list[j] = SeededIndividual(j)
         /\ \A j \in (seeded + 1)..parameters.population_size :
              individuals.list[j] = RandomIndividual(parameters.no_of_colors, j - seeded)
         /\ algorithm_runs = [j \in 1..NoOfAlgorithms |-> j]

C5_Witness ==
  /\ GenerateReturned
  /\ AllAlgorithmsSucceed
  /\ NoOfAlgorithms = 3
  /\ parameters.population_size = 2
  /\ Len(individuals.list) = 2
  /\ algorithm_runs = <<1, 2, 3>>

\* C6: generate_individuals returns None as soon as one configured algorithm
\* returns no individual, at whatever position of the list, and then returns
\* no partially built list.
C6_NoneWhenAnyAlgorithmFails ==
  (GenerateReturned /\ SomeAlgorithmFails) => individuals = None

C6_Witness ==
  /\ GenerateReturned
  /\ parameters.population_size = 1
  /\ ~parameters.algorithms.none
  /\ parameters.algorithms.list = <<TRUE, TRUE, FALSE>>
  /\ individuals = None

\* C7: when a seeding algorithm fails, create returns no population at all,
\* neither a partial one nor one wrapping a missing individuals list, for
\* no_of_chunks = 1 as for no_of_chunks >= 2.
C7_NoPopulationWhenSeedingFails ==
  (pf_call = "create" /\ pf_status # "ValidationError" /\ SomeAlgorithmFails)
  => populations = <<>>

\* C8: algorithms beyond the first population_size are ignored: the result of
\* generate_individuals equals its result on the algorithms list truncated to
\* population_size entries.
C8_ExcessAlgorithmsIgnored ==
  (GenerateReturned /\ NoOfAlgorithms > parameters.population_size)
  => individuals =
       generate_individuals(
         [parameters EXCEPT !.algorithms =
            Some(SubSeq(parameters.algorithms.list, 1, parameters.population_size))]).value

\* C9: with no_of_chunks = 1, create returns a list of exactly one
\* ChainPopulation wrapping all population_size generated individuals in
\* order, with no prev/next reference wired.
C9_SingleChainPopulationWrapsAllIndividuals ==
  (CreateReturned /\ parameters.no_of_chunks = 1)
  => /\ Len(populations) = 1
     /\ populations[1].kind = "ChainPopulation"
     /\ ~populations[1].individuals.none
     /\ Len(populations[1].individuals.list) = parameters.population_size
     /\ populations[1].individuals = individuals
     /\ populations[1].prev_individual = NoIndividual
     /\ populations[1].next_individual = NoIndividual

(***************************************************************************)
(* Properties of graph_coloring.py                                         *)
(***************************************************************************)
AlgorithmRan == gc_call # "none" /\ gc_status = "ok" /\ DOMAIN run_parameters # {}

\* C10: the search is configured by the caller's parameter bag: the
\* parameters color_graph and color_subgraph pass to the algorithm's run
\* carry the value of every key of the caller's bag.
C10_SearchRunsWithCallerParameters ==
  AlgorithmRan =>
    \A key \in DOMAIN gc_parameters : run_parameters[key] = gc_parameters[key]

ProcedureCalled == gc_call # "none"
ProcedureReturned == gc_call # "none" /\ gc_status = "ok"
GraphBuilt == gc_call # "none" /\ gc_status # "AbortError"

\* The vertex and edge collections the called procedure builds its graph from.
SourceVertices == IF gc_call = "color_subgraph" THEN vertices_arg ELSE context.vertices
SourceEdges == IF gc_call = "color_subgraph" THEN edges_arg ELSE context.edges

Count(s, x) == Cardinality({j \in 1..Len(s) : s[j] = x})
Range(s) == {s[j] : j \in 1..Len(s)}
Adjacency(u) == IF u \in DOMAIN graph.adj_list THEN graph.adj_list[u] ELSE <<>>
HostIds == {HostVertexId(k) : k \in 1..MaxVertices}

\* C11: color_graph and color_subgraph return one (node, color) record per
\* graph node in node-index order; record k carries the external label of
\* node k and the color at position k of the returned chromosome.
C11_OneRecordPerNodeInIndexOrder ==
  ProcedureReturned =>
    /\ Len(records) = Len(SourceVertices)
    /\ \A k \in 1..Len(records) :
         /\ records[k].node = ToString(SourceVertices[k])
         /\ records[k].color = ToString(sol[k])

C11_Witness ==
  /\ ProcedureReturned
  /\ gc_call = "color_subgraph"
  /\ vertices_arg = <<HostVertexId(2)>>
  /\ Len(context.vertices) = 2
  /\ records = <<[node |-> "12", color |-> "2"]>>

\* C12: the adjacency built is symmetric: for distinct nodes u, v and every
\* weight w, (v, w) occurs in u's list as often as (u, w) in v's list, one
\* such pair of entries for each edge between u and v of weight w.
C12_AdjacencyIsSymmetric ==
  GraphBuilt =>
    \A u \in HostIds, v \in HostIds, w \in Weights :
      u # v =>
        /\ Count(Adjacency(u), <<v, w>>) = Count(Adjacency(v), <<u, w>>)
        /\ Count(Adjacency(u), <<v, w>>) =
             Cardinality({j \in 1..Len(SourceEdges) :
                            /\ SourceEdges[j].weight = w
                            /\ {SourceEdges[j].from, SourceEdges[j].to} = {u, v}})

C12_Witness ==
  /\ GraphBuilt
  /\ gc_call = "color_graph"
  /\ Len(context.edges) = 2
  /\ context.edges[1] = [from |-> HostVertexId(1), to |-> HostVertexId(2), weight |-> 1]
  /\ context.edges[2] = [from |-> HostVertexId(2), to |-> HostVertexId(1), weight |-> 1]
  /\ Count(Adjacency(HostVertexId(1)), <<HostVertexId(2), 1>>) = 2
  /\ Count(Adjacency(HostVertexId(2)), <<HostVertexId(1), 1>>) = 2

\* The steps that a poll of the cancellation check must precede.
PolledOps == IF gc_call = "color_subgraph" THEN {"append_node", "add_edge"}
                                             ELSE {"append_node", "out_edges"}
StepsOf(op) == SelectSeq(construction, LAMBDA st : st.op = op)

\* C13: graph construction polls the cancellation check before each vertex of
\* both vertex passes (full graph) and before each supplied vertex and each
\* supplied edge (subgraph); when a poll signals abort, construction stops at
\* that poll and no Graph is returned.
C13_CancellationPolledBeforeEachItem ==
  ProcedureCalled =>
    /\ \A j \in 1..Len(construction) :
         construction[j].op \in PolledOps => (j > 1 /\ construction[j - 1].op = "poll")
    /\ polls = Len(StepsOf("poll"))
    /\ gc_status = "AbortError" =>
         /\ Len(construction) > 0
         /\ construction[Len(construction)].op = "poll"
         /\ graph = NoGraph
         /\ run_parameters = NoParameters
         /\ records = <<>>
    /\ gc_status # "AbortError" =>
         /\ Len(StepsOf("append_node")) = Len(SourceVertices)
         /\ gc_call = "color_graph" =>
              /\ Len(StepsOf("out_edges")) = Len(SourceVertices)
              /\ polls = 2 * Len(SourceVertices)
         /\ gc_call = "color_subgraph" =>
              /\ Len(StepsOf("add_edge")) = Len(SourceEdges)
              /\ polls = Len(SourceVertices) + Len(SourceEdges)

C13_Witness ==
  /\ gc_call = "color_subgraph"
  /\ gc_status = "AbortError"
  /\ Len(vertices_arg) = 1
  /\ Len(edges_arg) = 2
  /\ polls = 3
  /\ Len(StepsOf("add_edge")) = 1
  /\ graph = NoGraph

\* C14: in subgraph mode every node id that is an adjacency key or a neighbor
\* in the adjacency is one of the supplied vertices.
C14_SubgraphAdjacencyWithinSuppliedVertices ==
  (gc_call = "color_subgraph" /\ GraphBuilt) =>
    \A key \in DOMAIN graph.adj_list :
      /\ key \in Range(vertices_arg)
      /\ \A j \in 1..Len(graph.adj_list[key]) :
           graph.adj_list[key][j][1] \in Range(vertices_arg)

(***************************************************************************)
(* Properties of the search                                                *)
(***************************************************************************)
SearchEnded == search_state \in {"converged", "exhausted", "cancelled", "returned"}

\* C15: the search loop always terminates; it stops as soon as an individual
\* has energy 0, or max_iterations outer iterations have elapsed, or the
\* cancellation signal is observed, and runs no iteration after that.
C15_SearchTerminatesAndStopsAtOnce ==
  /\ (search_state = "running") ~> SearchEnded
  /\ [][(\/ energy = 0
         \/ iteration >= run_parameters.max_iterations
         \/ observed_abort(SearchArguments, must_abort)
         \/ SearchEnded)
        => iteration' = iteration]_vars

C15_Witness ==
  /\ search_state = "exhausted"
  /\ iteration = run_parameters.max_iterations
  /\ energy > 0

\* C16: an abort signal issued while the search is running ends the run
\* within one outer iteration, in the cancellation condition: no coloring is
\* returned to the caller.
C16_AbortEndsRunWithinOneIteration ==
  abort_issued_at >= 0 =>
    /\ iteration <= abort_issued_at + 1
    /\ ~coloring_returned

(***************************************************************************)
(* Ownership in the ring built by create, and the palette of the result    *)
(***************************************************************************)
\* C18: every run that returns a coloring returns a chromosome with one entry
\* per node of the input graph, each a color in [0, no_of_colors) of the
\* caller's parameters.
C18_ChromosomeWithinCallersPalette ==
  ProcedureReturned =>
    /\ Len(sol) = Len(SourceVertices)
    /\ \A k \in 1..Len(sol) : sol[k] \in 0..(gc_parameters.no_of_colors - 1)

(***************************************************************************)
(* The populations of create against the generated individuals             *)
(***************************************************************************)
\* C24: for population_size >= no_of_chunks >= 1, create returns exactly
\* no_of_chunks populations, and the individuals of the populations taken in
\* chunk order are exactly the list generate_individuals produced: every
\* generated individual is in exactly one chunk, none lost, none duplicated.
C24_PopulationsPartitionTheGeneratedIndividuals ==
  (/\ pf_call = "create"
   /\ pf_status # "ValidationError"
   /\ parameters.population_size >= parameters.no_of_chunks
   /\ parameters.no_of_chunks >= 1)
  => /\ pf_status = "ok"
     /\ Len(populations) = parameters.no_of_chunks
     /\ ~individuals.none
     /\ \A c \in 1..Len(populations) : ~populations[c].individuals.none
     /\ Concat([c \in 1..Len(populations) |-> populations[c].individuals.list])
          = individuals.list
     /\ Len(individuals.list) = parameters.population_size

(***************************************************************************)
(* Properties of tgn.py                                                    *)
(***************************************************************************)
\* C21: whatever calls came before, when set_params returns the pending
\* batch is empty with current_batch_size 0 and batch_size equal to the
\* argument, and the TGN object, the optimizer and the loss history are
\* objects that did not exist before the call, the loss history empty.
C21_SetParamsRestartsLearning ==
  [][(tgn_call' = "set_params" /\ tgn_status' = "ok") =>
       /\ query_module_tgn_batch' = reset_current_batch_data(batch_size_arg')
       /\ query_module_tgn_batch'.current_batch_size = 0
       /\ query_module_tgn'.defined
       /\ query_module_tgn'.tgn > tgn_objects
       /\ query_module_tgn'.optimizer > tgn_objects
       /\ query_module_tgn'.m_loss.object > tgn_objects
       /\ query_module_tgn'.m_loss.length = 0]_vars

\* A second set_params, after a batch was trained under the first.
C21_Witness ==
  /\ tgn_call = "set_params"
  /\ tgn_status = "ok"
  /\ tgn_objects = 2
  /\ query_module_tgn.tgn = 2
  /\ all_embeddings # {}
  /\ batch_size_arg = 2
  /\ query_module_tgn_batch = reset_current_batch_data(2)

\* C22: whenever update enters train_batch_self_supervised the assertion of
\* lines 156-157 holds: sources, destinations, timestamps, edge_idxs and
\* edge_features all have current_batch_size entries, whatever edges lists
\* the update calls were passed.
C22_BatchSizeAssertionHolds ==
  (tgn_call = "update" /\ trained) =>
    /\ tgn_status # "AssertionError"
    /\ tgn_status # "ok" => batch_size_assertion(query_module_tgn_batch)

\* C25: with a TGN set and batch_size B >= 1, an update trains exactly when
\* the pending count plus the number of edges passed is at least B; when it
\* returns normally the pending count is below B; after an update that
\* trained the pending batch is empty and batch_size is still B.
C25_UpdateTrainsAtBatchSize ==
  [][(/\ tgn_call' = "update"
      /\ query_module_tgn.defined
      /\ query_module_tgn_batch.defined
      /\ query_module_tgn_batch.batch_size >= 1)
     => /\ trained' <=>
             (query_module_tgn_batch.current_batch_size + Len(edges_passed')
                >= query_module_tgn_batch.batch_size)
        /\ tgn_status' = "ok" =>
             query_module_tgn_batch'.current_batch_size
               < query_module_tgn_batch.batch_size
        /\ (tgn_status' = "ok" /\ trained') =>
             /\ query_module_tgn_batch'.current_batch_size = 0
             /\ query_module_tgn_batch'.sources = <<>>
             /\ query_module_tgn_batch'.destinations = <<>>
             /\ query_module_tgn_batch'.timestamps = <<>>
             /\ query_module_tgn_batch'.edge_idxs = <<>>
             /\ query_module_tgn_batch'.edge_features = {}
        /\ query_module_tgn_batch'.batch_size = query_module_tgn_batch.batch_size]_vars

\* An update passed one edge that completed a batch of two and trained it.
C25_Witness ==
  /\ tgn_call = "update"
  /\ tgn_status = "ok"
  /\ trained
  /\ Len(edges_passed) = 1
  /\ query_module_tgn.m_loss.length = 1
  /\ query_module_tgn_batch = reset_current_batch_data(2)
  /\ Cardinality(all_edges) = 2

\* C26: reset empties the embeddings, the seen-edge set and the pending
\* batch, and leaves the configured batch size and the TGN model as they
\* were, so that later updates batch by the batch size set before.
C26_ResetKeepsBatchSizeAndModel ==
  [][(tgn_call' = "reset" /\ query_module_tgn_batch.defined) =>
       /\ all_embeddings' = {}
       /\ all_edges' = {}
       /\ query_module_tgn_batch'.current_batch_size = 0
       /\ query_module_tgn_batch'.sources = <<>>
       /\ query_module_tgn_batch'.edge_features = {}
       /\ query_module_tgn_batch'.batch_size = query_module_tgn_batch.batch_size
       /\ query_module_tgn' = query_module_tgn]_vars

====
